---- MODULE Spec2Model ----
(***************************************************************************)
(* Treasure Quest engine (src/src/game.rs) and its session registry        *)
(* (src/src/main.rs, TreasureEngine).                                      *)
(*                                                                         *)
(* The engine is a pure transition function over GameState values; the     *)
(* registry is a HashMap<String, GameState> behind one tokio Mutex that is *)
(* taken by every tool handler.                                            *)
(***************************************************************************)
EXTENDS Integers, Sequences, FiniteSets, TLC

(***************************************************************************)
(* Bounds of the model.                                                    *)
(***************************************************************************)
\* number of apply_action steps of one game explored with the full alphabet
MaxSteps == 5
\* number of apply_action steps of one game explored with the quest alphabet
MaxQuestSteps == 7
\* number of apply_action steps explored from a game already in the cave
MaxCaveSteps == 3
\* number of tool calls issued against the registry
MaxCalls == 4

(***************************************************************************)
(* game.rs: data                                                           *)
(***************************************************************************)
Directions == {"north", "south", "east", "west"}

\* item strings a caller may pass to UseItem; "sword" stands for any string
\* that names no item of the world
Items == {"potion", "rusty key", "sword"}

\* outcomes of fastrand::u8(0..=100) kept by the model: both ends of the
\* range and both sides of the threshold
Rolls == {0, 49, 50, 100}

Move(d) == [type |-> "move", direction |-> d]
Inspect == [type |-> "inspect"]
Pickup == [type |-> "pickup"]
UseItem(i) == [type |-> "use_item", item |-> i]
Attack == [type |-> "attack"]

GameAction ==
    {Move(d) : d \in Directions} \cup {Inspect, Pickup, Attack}
        \cup {UseItem(i) : i \in Items}

contains(v, e) == \E i \in 1..Len(v) : v[i] = e

\* variant: the newest line is put first
push_log_front(state, line) == [state EXCEPT !.log = <<line>> \o @]

push_log(state, line) == [state EXCEPT !.log = Append(@, line)]

\* variant: the player starts with ten times the health
new_game_strong(id) ==
    [ game_id   |-> id,
      player    |-> [x |-> 0, y |-> 0, health |-> 100, inventory |-> <<>>],
      log       |-> <<"You wake up in a small village at (0,0). To the east lies a dark forest.">>,
      game_over |-> FALSE,
      victory   |-> FALSE ]

new_game(id) ==
    [ game_id   |-> id,
      player    |-> [x |-> 0, y |-> 0, health |-> 10, inventory |-> <<>>],
      log       |-> <<"You wake up in a small village at (0,0). To the east lies a dark forest.">>,
      game_over |-> FALSE,
      victory   |-> FALSE ]

describe_tile(x, y) ==
    CASE x = 0 /\ y = 0 -> "a quiet village square with a well in the center."
      [] x = 1 /\ y = 0 -> "a dense forest. You hear distant howls and see something glinting on the ground."
      [] x = 2 /\ y = 0 -> "the entrance to a dark cave. Cold air flows from within."
      [] x = 2 /\ y = 1 -> "a deep cave chamber. You feel an ominous presence and see a locked chest."
      [] x = 0 /\ y = 1 -> "a small riverbank. The water is clear and cold."
      [] x = 1 /\ y = 1 -> "a rocky path leading between the forest and the cave."
      [] OTHER -> "featureless terrain."

(***************************************************************************)
(* game.rs: handlers                                                       *)
(***************************************************************************)
\* variant: north and south exchanged
delta_flipped(direction) ==
    CASE direction = "north" -> <<0, 1>>
      [] direction = "south" -> <<0, -1>>
      [] direction = "east"  -> <<1, 0>>
      [] direction = "west"  -> <<-1, 0>>

delta(direction) ==
    CASE direction = "north" -> <<0, -1>>
      [] direction = "south" -> <<0, 1>>
      [] direction = "east"  -> <<1, 0>>
      [] direction = "west"  -> <<-1, 0>>

\* variant: the east edge of the world one tile too far
out_of_bounds_wide(new_x, new_y) == new_x < 0 \/ new_x > 3 \/ new_y < 0 \/ new_y > 1

out_of_bounds(new_x, new_y) == new_x < 0 \/ new_x > 2 \/ new_y < 0 \/ new_y > 1

handle_move(state, direction) ==
    LET new_x == state.player.x + delta(direction)[1]
        new_y == state.player.y + delta(direction)[2]
    IN  IF out_of_bounds(new_x, new_y)
        THEN push_log(state, "You can't go that way. The world seems to end there.")
        ELSE push_log([state EXCEPT !.player.x = new_x, !.player.y = new_y],
                      "You move to (" \o ToString(new_x) \o "," \o ToString(new_y)
                          \o ") - " \o describe_tile(new_x, new_y))

handle_inspect(state) ==
    push_log(state, "You inspect your surroundings: "
                        \o describe_tile(state.player.x, state.player.y))

\* variant: the item is taken whether or not it is already held
pickup_item_always(state, item, found, already) ==
    push_log([state EXCEPT !.player.inventory = Append(@, item)], found)

pickup_item(state, item, found, already) ==
    IF ~contains(state.player.inventory, item)
    THEN push_log([state EXCEPT !.player.inventory = Append(@, item)], found)
    ELSE push_log(state, already)

\* variant: the village square holds a third item
handle_pickup_sword(state) ==
    CASE state.player.x = 1 /\ state.player.y = 0 ->
            pickup_item(state, "potion",
                "You find a small potion on the ground and pick it up.",
                "You already picked up the potion here.")
      [] state.player.x = 2 /\ state.player.y = 0 ->
            pickup_item(state, "rusty key",
                "You notice a rusty key wedged between rocks and carefully take it.",
                "You already picked up the key here.")
      [] state.player.x = 0 /\ state.player.y = 0 ->
            pickup_item(state, "sword",
                "You find a sword by the well and pick it up.",
                "You already picked up the sword here.")
      [] OTHER ->
            push_log(state, "You search around but don't find anything interesting.")

\* variant: the forest holds one potion per game
handle_pickup_once(state) ==
    CASE state.player.x = 1 /\ state.player.y = 0 ->
            IF contains(state.log, "You find a small potion on the ground and pick it up.")
            THEN push_log(state, "You already picked up the potion here.")
            ELSE pickup_item(state, "potion",
                    "You find a small potion on the ground and pick it up.",
                    "You already picked up the potion here.")
      [] state.player.x = 2 /\ state.player.y = 0 ->
            pickup_item(state, "rusty key",
                "You notice a rusty key wedged between rocks and carefully take it.",
                "You already picked up the key here.")
      [] OTHER ->
            push_log(state, "You search around but don't find anything interesting.")

\* variant: the two items lie on each other's tile
handle_pickup_swapped(state) ==
    CASE state.player.x = 2 /\ state.player.y = 0 ->
            pickup_item(state, "potion",
                "You find a small potion on the ground and pick it up.",
                "You already picked up the potion here.")
      [] state.player.x = 1 /\ state.player.y = 0 ->
            pickup_item(state, "rusty key",
                "You notice a rusty key wedged between rocks and carefully take it.",
                "You already picked up the key here.")
      [] OTHER ->
            push_log(state, "You search around but don't find anything interesting.")

handle_pickup(state) ==
    CASE state.player.x = 1 /\ state.player.y = 0 ->
            pickup_item(state, "potion",
                "You find a small potion on the ground and pick it up.",
                "You already picked up the potion here.")
      [] state.player.x = 2 /\ state.player.y = 0 ->
            pickup_item(state, "rusty key",
                "You notice a rusty key wedged between rocks and carefully take it.",
                "You already picked up the key here.")
      [] OTHER ->
            push_log(state, "You search around but don't find anything interesting.")

\* variant: the potion heals five points, up to ten
use_potion_additive(state) ==
    push_log([state EXCEPT !.player.health = IF @ + 5 > 10 THEN 10 ELSE @ + 5,
                           !.player.inventory = SelectSeq(@, LAMBDA i : i # "potion")],
             "You drink the potion. Your health is fully restored.")

use_potion(state) ==
    push_log([state EXCEPT !.player.health = 10,
                           !.player.inventory = SelectSeq(@, LAMBDA i : i # "potion")],
             "You drink the potion. Your health is fully restored.")

\* variant: opening the chest uses the key up
use_key_consumes(state) ==
    IF state.player.x = 2 /\ state.player.y = 1
    THEN [push_log(push_log(state,
              "You use the rusty key to open the ancient chest in the cave."),
              "Inside, you find a pile of gold and a glowing gem. You have found the treasure!")
            EXCEPT !.game_over = TRUE, !.victory = TRUE,
                   !.player.inventory = SelectSeq(@, LAMBDA i : i # "rusty key")]
    ELSE push_log(state,
              "You idly play with the rusty key, but it doesn't seem to fit anything here.")

\* variant: the key opens the chest from any tile
use_key_anywhere(state) ==
    [push_log(push_log(state,
        "You use the rusty key to open the ancient chest in the cave."),
        "Inside, you find a pile of gold and a glowing gem. You have found the treasure!")
      EXCEPT !.game_over = TRUE, !.victory = TRUE]

use_key(state) ==
    IF state.player.x = 2 /\ state.player.y = 1
    THEN [push_log(push_log(state,
              "You use the rusty key to open the ancient chest in the cave."),
              "Inside, you find a pile of gold and a glowing gem. You have found the treasure!")
            EXCEPT !.game_over = TRUE, !.victory = TRUE]
    ELSE push_log(state,
              "You idly play with the rusty key, but it doesn't seem to fit anything here.")

handle_use_item(state, item) ==
    IF ~contains(state.player.inventory, item)
    THEN push_log(state, "You don't have a " \o item \o " to use.")
    ELSE CASE item = "potion"    -> use_potion(state)
           [] item = "rusty key" -> use_key(state)
           [] OTHER -> push_log(state, "You can't figure out how to use the " \o item \o ".")

damage == 3

\* variant: the hit that brings health to 0 or less does not end the game
take_damage_no_end(state) ==
    LET hit == push_log([state EXCEPT !.player.health = @ - damage],
                   "A dark creature lashes out from the shadows and hits you for "
                       \o ToString(damage) \o " damage!")
    IN  IF hit.player.health <= 0
        THEN push_log(hit, "You collapse to the ground. The darkness closes in...")
        ELSE push_log(hit, "You barely survive the attack and stagger back.")

take_damage(state) ==
    LET hit == push_log([state EXCEPT !.player.health = @ - damage],
                   "A dark creature lashes out from the shadows and hits you for "
                       \o ToString(damage) \o " damage!")
    IN  IF hit.player.health <= 0
        THEN [push_log(hit, "You collapse to the ground. The darkness closes in...")
                EXCEPT !.game_over = TRUE, !.victory = FALSE]
        ELSE push_log(hit, "You barely survive the attack and stagger back.")

\* variant: a roll of exactly 50 still wins the fight
handle_attack_threshold(state, roll) ==
    IF ~(state.player.x = 2 /\ state.player.y = 1)
    THEN push_log(state, "You swing at the air. There's nothing to attack here.")
    ELSE IF roll <= 50
         THEN push_log(push_log(state,
                  "You lunge forward and strike the lurking shadow. It vanishes!"),
                  "With the guardian defeated, you can now safely search for treasure here.")
         ELSE take_damage(state)

\* variant: defeating the guardian wins the game
handle_attack_wins(state, roll) ==
    IF ~(state.player.x = 2 /\ state.player.y = 1)
    THEN push_log(state, "You swing at the air. There's nothing to attack here.")
    ELSE IF roll < 50
         THEN [push_log(push_log(state,
                  "You lunge forward and strike the lurking shadow. It vanishes!"),
                  "With the guardian defeated, you can now safely search for treasure here.")
                EXCEPT !.game_over = TRUE, !.victory = TRUE]
         ELSE take_damage(state)

\* variant: the won fight is told in one line
handle_attack_one_line(state, roll) ==
    IF ~(state.player.x = 2 /\ state.player.y = 1)
    THEN push_log(state, "You swing at the air. There's nothing to attack here.")
    ELSE IF roll < 50
         THEN push_log(state,
                  "You lunge forward and strike the lurking shadow. It vanishes!")
         ELSE take_damage(state)

handle_attack(state, roll) ==
    IF ~(state.player.x = 2 /\ state.player.y = 1)
    THEN push_log(state, "You swing at the air. There's nothing to attack here.")
    ELSE IF roll < 50
         THEN push_log(push_log(state,
                  "You lunge forward and strike the lurking shadow. It vanishes!"),
                  "With the guardian defeated, you can now safely search for treasure here.")
         ELSE take_damage(state)

already_over(state) ==
    push_log(state, "The game is already over. Start a new one to continue playing.")

dispatch(state, action, roll) ==
    CASE action.type = "move"     -> handle_move(state, action.direction)
      [] action.type = "inspect"  -> handle_inspect(state)
      [] action.type = "pickup"   -> handle_pickup(state)
      [] action.type = "use_item" -> handle_use_item(state, action.item)
      [] action.type = "attack"   -> handle_attack(state, roll)

\* variant: no check of game_over before the dispatch
apply_action_unguarded(state, action, roll) == dispatch(state, action, roll)

\* roll is the value fastrand::u8(0..=100) returns if handle_attack draws it
apply_action(state, action, roll) ==
    IF state.game_over THEN already_over(state) ELSE dispatch(state, action, roll)

(***************************************************************************)
(* State.                                                                  *)
(*                                                                         *)
(* state, trace, steps: one game driven directly through the engine        *)
(* (new_game, then apply_action after apply_action).  trace holds the      *)
(* (action, roll) inputs of every apply_action since new_game, steps the   *)
(* number of them the specification itself has taken.                      *)
(*                                                                         *)
(* games: TreasureEngine.games, the HashMap<String, GameState>;            *)
(* lock: the holder of its Mutex.  Each caller is one task running a tool  *)
(* handler: pc is its place in the handler, req its parameters, game /     *)
(* current / updated the handler's locals, result what the last call       *)
(* returned; drawn is the roll the handler's apply_action drew.            *)
(*                                                                         *)
(* issued, calls, hist, pos, floor and done_pos record the run:            *)
(* the ids new_game has handed out, the number of calls made, per id the   *)
(* (action, roll) pairs in the order of their games.insert, per caller the *)
(* place of its insert in that order and the highest place of an apply     *)
(* that had returned when it was called.                                   *)
(***************************************************************************)
VARIABLES state, trace, steps,
          games, lock, pc, req, game, current, updated, result,
          drawn, issued, calls, hist, pos, floor, done_pos

engine_vars == <<state, trace, steps>>
registry_vars ==
    <<games, lock, pc, req, game, current, updated, result,
      drawn, issued, calls, hist, pos, floor, done_pos>>
vars == <<engine_vars, registry_vars>>

\* identifiers Uuid::new_v4() may return
Ids == {"g1", "g2"}

\* concurrent tool calls in flight
Callers == {"c1", "c2"}

\* actions the callers of the registry pass to game_apply_action
RegistryActions == {Move("east"), Pickup, UseItem("potion")}

NoRoll == -1
NoState == [type |-> "none"]
NoRequest == [type |-> "none"]
NoResult == [type |-> "none"]
Free == "free"

Ok(s) == [type |-> "ok", state |-> s]
\* McpError::invalid_params("No game found for id ...")
NotFound(id) == [type |-> "not_found", game_id |-> id]

\* handle_attack reaches fastrand::u8 only in a running game at (2,1)
draws_roll(s, a) ==
    ~s.game_over /\ a.type = "attack" /\ s.player.x = 2 /\ s.player.y = 1

rolls_for(s, a) == IF draws_roll(s, a) THEN Rolls ELSE {NoRoll}

\* the state after the apply_action calls of h, in order
RECURSIVE replay(_, _)
replay(s, h) ==
    IF h = << >> THEN s
    ELSE replay(apply_action(s, Head(h).action, Head(h).roll), Tail(h))

Input(a, r) == [action |-> a, roll |-> r]

\* TreasureEngine::new(): an empty map, nobody holds the lock
RegistryInit ==
    /\ games = [id \in {} |-> NoState]
    /\ lock = Free
    /\ pc = [c \in Callers |-> "idle"]
    /\ req = [c \in Callers |-> NoRequest]
    /\ game = [c \in Callers |-> NoState]
    /\ current = [c \in Callers |-> NoState]
    /\ updated = [c \in Callers |-> NoState]
    /\ result = [c \in Callers |-> NoResult]
    /\ drawn = [c \in Callers |-> NoRoll]
    /\ issued = {}
    /\ calls = 0
    /\ hist = [id \in Ids |-> << >>]
    /\ pos = [c \in Callers |-> 0]
    /\ floor = [c \in Callers |-> 0]
    /\ done_pos = [id \in Ids |-> 0]

(***************************************************************************)
(* One game driven through the engine.                                     *)
(***************************************************************************)
EngineInit ==
    /\ \E id \in Ids : state = new_game(id)
    /\ trace = << >>
    /\ steps = 0
    /\ RegistryInit

Step(a, max) ==
    /\ steps < max
    /\ \E r \in rolls_for(state, a) :
          /\ state' = apply_action(state, a, r)
          /\ trace' = Append(trace, Input(a, r))
    /\ steps' = steps + 1
    /\ UNCHANGED registry_vars

DoMove == \E d \in Directions : Step(Move(d), MaxSteps)
DoInspect == Step(Inspect, MaxSteps)
DoPickup == Step(Pickup, MaxSteps)
DoUseItem == \E i \in Items : Step(UseItem(i), MaxSteps)
DoAttack == Step(Attack, MaxSteps)

EngineNext == DoMove \/ DoInspect \/ DoPickup \/ DoUseItem \/ DoAttack

EngineSpec == EngineInit /\ [][EngineNext]_vars

(***************************************************************************)
(* The same engine driven deeper by a caller that only issues the actions  *)
(* of the quest: towards the cave, the key, the guardian.                  *)
(***************************************************************************)
QuestActions ==
    {Move("east"), Move("south"), Pickup, UseItem("rusty key"), Attack}

QuestNext == \E a \in QuestActions : Step(a, MaxQuestSteps)

QuestSpec == EngineInit /\ [][QuestNext]_vars

(***************************************************************************)
(* The engine with every action, from games that have already been walked  *)
(* from new_game into the cave chamber at (2,1): with the key at full      *)
(* health, with the key after three hits, and with the potion but no key   *)
(* after three hits.                                                       *)
(***************************************************************************)
Walk(a) == Input(a, NoRoll)
Hit == Input(Attack, 50)

ToCave == <<Walk(Move("east")), Walk(Move("east")), Walk(Pickup), Walk(Move("south"))>>

Walks ==
    { ToCave,
      ToCave \o <<Hit, Hit, Hit>>,
      <<Walk(Move("east")), Walk(Pickup), Walk(Move("east")), Walk(Move("south")),
        Hit, Hit, Hit>> }

CaveInit ==
    /\ \E id \in Ids, w \in Walks :
          /\ state = replay(new_game(id), w)
          /\ trace = w
    /\ steps = 0
    /\ RegistryInit

CaveMove == \E d \in Directions : Step(Move(d), MaxCaveSteps)
CaveInspect == Step(Inspect, MaxCaveSteps)
CavePickup == Step(Pickup, MaxCaveSteps)
CaveUseItem == \E i \in Items : Step(UseItem(i), MaxCaveSteps)
CaveAttack == Step(Attack, MaxCaveSteps)

CaveNext == CaveMove \/ CaveInspect \/ CavePickup \/ CaveUseItem \/ CaveAttack

CaveSpec == CaveInit /\ [][CaveNext]_vars

(***************************************************************************)
(* main.rs: the registry.  HashMap operations.                             *)
(***************************************************************************)
contains_key(m, k) == k \in DOMAIN m

insert(m, k, v) == [x \in DOMAIN m \cup {k} |-> IF x = k THEN v ELSE m[x]]

Max(a, b) == IF a >= b THEN a ELSE b

(***************************************************************************)
(* A tool call arrives.  The handler runs up to its first await, which is  *)
(* self.games.lock().await.                                                *)
(***************************************************************************)
\* game_start: new_game() and the copy of its id are taken before the lock
CallStart(c) ==
    /\ pc[c] = "idle"
    /\ calls < MaxCalls
    /\ \E id \in Ids \ issued :
          /\ game' = [game EXCEPT ![c] = new_game(id)]
          /\ issued' = issued \cup {id}
    /\ req' = [req EXCEPT ![c] = [type |-> "game_start"]]
    /\ pc' = [pc EXCEPT ![c] = "start_lock"]
    /\ result' = [result EXCEPT ![c] = NoResult]
    /\ pos' = [pos EXCEPT ![c] = 0]
    /\ calls' = calls + 1
    /\ UNCHANGED <<engine_vars, games, lock, current, updated, drawn, hist,
                   floor, done_pos>>

CallGetState(c) ==
    /\ pc[c] = "idle"
    /\ calls < MaxCalls
    /\ \E id \in Ids :
          req' = [req EXCEPT ![c] = [type |-> "game_get_state", game_id |-> id]]
    /\ pc' = [pc EXCEPT ![c] = "get_lock"]
    /\ result' = [result EXCEPT ![c] = NoResult]
    /\ pos' = [pos EXCEPT ![c] = 0]
    /\ calls' = calls + 1
    /\ UNCHANGED <<engine_vars, games, lock, game, current, updated, drawn,
                   issued, hist, floor, done_pos>>

CallApplyAction(c) ==
    /\ pc[c] = "idle"
    /\ calls < MaxCalls
    /\ \E id \in Ids, a \in RegistryActions :
          /\ req' = [req EXCEPT ![c] = [type |-> "game_apply_action",
                                        game_id |-> id, action |-> a]]
          /\ floor' = [floor EXCEPT ![c] = done_pos[id]]
    /\ pc' = [pc EXCEPT ![c] = "apply_lock"]
    /\ result' = [result EXCEPT ![c] = NoResult]
    /\ pos' = [pos EXCEPT ![c] = 0]
    /\ calls' = calls + 1
    /\ UNCHANGED <<engine_vars, games, lock, game, current, updated, drawn,
                   issued, hist, done_pos>>

(***************************************************************************)
(* self.games.lock().await: the caller goes on once it holds the Mutex.    *)
(***************************************************************************)
after_lock(p) ==
    CASE p = "start_lock" -> "start_insert"
      [] p = "get_lock"   -> "get_lookup"
      [] p = "apply_lock" -> "apply_lookup"

\* variant: the handler goes on without waiting for the Mutex
LockUnguarded(c) ==
    /\ pc[c] \in {"start_lock", "get_lock", "apply_lock"}
    /\ lock' = c
    /\ pc' = [pc EXCEPT ![c] = after_lock(pc[c])]
    /\ UNCHANGED <<engine_vars, games, req, game, current, updated, result,
                   drawn, issued, calls, hist, pos, floor, done_pos>>

Lock(c) ==
    /\ pc[c] \in {"start_lock", "get_lock", "apply_lock"}
    /\ lock = Free
    /\ lock' = c
    /\ pc' = [pc EXCEPT ![c] = after_lock(pc[c])]
    /\ UNCHANGED <<engine_vars, games, req, game, current, updated, result,
                   drawn, issued, calls, hist, pos, floor, done_pos>>

\* the handler returns r: its locals and the MutexGuard are dropped
Return(c, r) ==
    /\ result' = [result EXCEPT ![c] = r]
    /\ lock' = Free
    /\ pc' = [pc EXCEPT ![c] = "idle"]
    /\ game' = [game EXCEPT ![c] = NoState]
    /\ current' = [current EXCEPT ![c] = NoState]
    /\ updated' = [updated EXCEPT ![c] = NoState]
    /\ drawn' = [drawn EXCEPT ![c] = NoRoll]

(***************************************************************************)
(* game_start                                                              *)
(***************************************************************************)
\* variant: starting a game empties the map first
StartInsertReset(c) ==
    /\ pc[c] = "start_insert"
    /\ games' = [x \in {game[c].game_id} |-> game[c]]
    /\ pc' = [pc EXCEPT ![c] = "start_ret"]
    /\ UNCHANGED <<engine_vars, lock, req, game, current, updated, result,
                   drawn, issued, calls, hist, pos, floor, done_pos>>

StartInsert(c) ==
    /\ pc[c] = "start_insert"
    /\ games' = insert(games, game[c].game_id, game[c])
    /\ pc' = [pc EXCEPT ![c] = "start_ret"]
    /\ UNCHANGED <<engine_vars, lock, req, game, current, updated, result,
                   drawn, issued, calls, hist, pos, floor, done_pos>>

StartReturn(c) ==
    /\ pc[c] = "start_ret"
    /\ Return(c, Ok(game[c]))
    /\ UNCHANGED <<engine_vars, games, req, issued, calls, hist, pos, floor,
                   done_pos>>

(***************************************************************************)
(* game_get_state                                                          *)
(***************************************************************************)
\* variant: the early return for an unknown id keeps the MutexGuard alive
GetLookupLeak(c) ==
    /\ pc[c] = "get_lookup"
    /\ IF contains_key(games, req[c].game_id)
       THEN /\ current' = [current EXCEPT ![c] = games[req[c].game_id]]
            /\ pc' = [pc EXCEPT ![c] = "get_ret"]
            /\ UNCHANGED <<lock, game, updated, result, drawn>>
       ELSE /\ result' = [result EXCEPT ![c] = NotFound(req[c].game_id)]
            /\ pc' = [pc EXCEPT ![c] = "idle"]
            /\ UNCHANGED <<lock, game, current, updated, drawn>>
    /\ UNCHANGED <<engine_vars, games, req, issued, calls, hist, pos, floor,
                   done_pos>>

GetLookup(c) ==
    /\ pc[c] = "get_lookup"
    /\ IF contains_key(games, req[c].game_id)
       THEN /\ current' = [current EXCEPT ![c] = games[req[c].game_id]]
            /\ pc' = [pc EXCEPT ![c] = "get_ret"]
            /\ UNCHANGED <<lock, game, updated, result, drawn>>
       ELSE Return(c, NotFound(req[c].game_id))
    /\ UNCHANGED <<engine_vars, games, req, issued, calls, hist, pos, floor,
                   done_pos>>

GetReturn(c) ==
    /\ pc[c] = "get_ret"
    /\ Return(c, Ok(current[c]))
    /\ UNCHANGED <<engine_vars, games, req, issued, calls, hist, pos, floor,
                   done_pos>>

(***************************************************************************)
(* game_apply_action                                                       *)
(***************************************************************************)
\* variant: an unknown id gets a game of its own (entry().or_insert_with)
ApplyLookupOrCreate(c) ==
    /\ pc[c] = "apply_lookup"
    /\ current' = [current EXCEPT ![c] =
                      IF contains_key(games, req[c].game_id)
                      THEN games[req[c].game_id]
                      ELSE new_game(req[c].game_id)]
    /\ pc' = [pc EXCEPT ![c] = "apply_action"]
    /\ UNCHANGED <<engine_vars, games, lock, req, game, updated, result, drawn,
                   issued, calls, hist, pos, floor, done_pos>>

ApplyLookup(c) ==
    /\ pc[c] = "apply_lookup"
    /\ IF contains_key(games, req[c].game_id)
       THEN /\ current' = [current EXCEPT ![c] = games[req[c].game_id]]
            /\ pc' = [pc EXCEPT ![c] = "apply_action"]
            /\ UNCHANGED <<lock, game, updated, result, drawn>>
       ELSE Return(c, NotFound(req[c].game_id))
    /\ UNCHANGED <<engine_vars, games, req, issued, calls, hist, pos, floor,
                   done_pos>>

ApplyCompute(c) ==
    /\ pc[c] = "apply_action"
    /\ \E r \in rolls_for(current[c], req[c].action) :
          /\ updated' = [updated EXCEPT ![c] =
                            apply_action(current[c], req[c].action, r)]
          /\ drawn' = [drawn EXCEPT ![c] = r]
    /\ pc' = [pc EXCEPT ![c] = "apply_insert"]
    /\ UNCHANGED <<engine_vars, games, lock, req, game, current, result,
                   issued, calls, hist, pos, floor, done_pos>>

ApplyInsert(c) ==
    /\ pc[c] = "apply_insert"
    /\ games' = insert(games, req[c].game_id, updated[c])
    /\ hist' = [hist EXCEPT ![req[c].game_id] =
                   Append(@, Input(req[c].action, drawn[c]))]
    /\ pos' = [pos EXCEPT ![c] = Len(hist[req[c].game_id]) + 1]
    /\ pc' = [pc EXCEPT ![c] = "apply_ret"]
    /\ UNCHANGED <<engine_vars, lock, req, game, current, updated, result,
                   drawn, issued, calls, floor, done_pos>>

ApplyReturn(c) ==
    /\ pc[c] = "apply_ret"
    /\ Return(c, Ok(updated[c]))
    /\ done_pos' = [done_pos EXCEPT ![req[c].game_id] = Max(@, pos[c])]
    /\ UNCHANGED <<engine_vars, games, req, issued, calls, hist, pos, floor>>

(***************************************************************************)
(* The registry under concurrent callers.                                  *)
(***************************************************************************)
Init ==
    /\ state = NoState
    /\ trace = << >>
    /\ steps = 0
    /\ RegistryInit

Call(c) == CallStart(c) \/ CallGetState(c) \/ CallApplyAction(c)

\* the steps of a handler that holds the lock
Run(c) ==
    \/ StartInsert(c) \/ StartReturn(c)
    \/ GetLookup(c) \/ GetReturn(c)
    \/ ApplyLookup(c) \/ ApplyCompute(c) \/ ApplyInsert(c) \/ ApplyReturn(c)

Next == \E c \in Callers : Call(c) \/ Lock(c) \/ Run(c)

Spec == Init /\ [][Next]_vars

\* The runtime polls every task that can go on, and tokio's Mutex hands the
\* lock to its waiters in the order they asked for it.
Fairness == \A c \in Callers : WF_vars(Run(c)) /\ SF_vars(Lock(c))

FairSpec == Spec /\ Fairness

(***************************************************************************)
(* Properties of the registry.                                             *)
(***************************************************************************)
WaitingPcs == {"start_lock", "get_lock", "apply_lock"}

\* c is past lock().await and has not returned
in_critical(c) == pc[c] \notin WaitingPcs \cup {"idle"}

applies_on(c, id) == req[c].type = "game_apply_action" /\ req[c].game_id = id

\* C1: concurrent game_apply_action calls on one game_id lose no update.
\* No two handlers are past the lock at once and the state a handler read is
\* still the stored one when it writes back (read, transition and write are
\* one atomic step); the stored state of every session is new_game followed
\* by every action inserted for it, in the order of the inserts; that order
\* puts an apply after every apply that had returned when it was called;
\* and an apply returns the state its own insert stored.
C1_ApplyIsAtomic ==
    /\ \A c, d \in Callers : in_critical(c) /\ in_critical(d) => c = d
    /\ \A c \in Callers :
          pc[c] \in {"apply_action", "apply_insert"}
              => games[req[c].game_id] = current[c]
    /\ \A id \in DOMAIN games : games[id] = replay(new_game(id), hist[id])
    /\ \A c \in Callers :
          pos[c] > 0 => /\ pos[c] > floor[c]
                        /\ pos[c] <= Len(hist[req[c].game_id])
    /\ \A c, d \in Callers :
          (c # d /\ pos[c] > 0 /\ pos[d] > 0 /\ req[c].game_id = req[d].game_id)
              => pos[c] # pos[d]
    /\ \A c \in Callers :
          (req[c].type = "game_apply_action" /\ result[c].type = "ok")
              => result[c].state =
                     replay(new_game(req[c].game_id),
                            SubSeq(hist[req[c].game_id], 1, pos[c]))

\* two applies on one game overlapped in time (the second was called before
\* the first had returned) and both have returned
C1_Witness ==
    \E id \in Ids, c, d \in Callers :
        /\ c # d
        /\ applies_on(c, id) /\ applies_on(d, id)
        /\ result[c].type = "ok" /\ result[d].type = "ok"
        /\ pos[c] = 1 /\ pos[d] = 2 /\ floor[d] = 0

\* C2: game_get_state and game_apply_action with a game_id that is no key of
\* the map return the not-found error and leave the map as it was: the step
\* of the handler that misses the key ends the call with NotFound and
\* changes neither the keys nor any stored state.
C2_UnknownIdNotFound ==
    [][\A c \in Callers :
          ( /\ pc[c] \in {"get_lookup", "apply_lookup"}
            /\ ~contains_key(games, req[c].game_id)
            /\ pc'[c] # pc[c] )
          => ( /\ result'[c] = NotFound(req[c].game_id)
               /\ pc'[c] = "idle"
               /\ games' = games )]_vars

\* an apply on an unknown id has failed while another session is stored
C2_Witness ==
    \E c \in Callers :
        /\ req[c].type = "game_apply_action"
        /\ result[c] = NotFound(req[c].game_id)
        /\ ~contains_key(games, req[c].game_id)
        /\ DOMAIN games # {}



\* the fields of a game nobody has played yet
is_fresh(g) ==
    /\ g.player.x = 0 /\ g.player.y = 0
    /\ g.player.health = 10
    /\ g.player.inventory = << >>
    /\ ~g.game_over /\ ~g.victory
    /\ Len(g.log) = 1

\* C8: every game made by new_game / game_start starts at (0,0) with health
\* 10, an empty inventory, game_over and victory FALSE and a log of one
\* entry; game_start stores that state in the map under the key that equals
\* its game_id and returns it.
C8_StartStoresFreshGame ==
    /\ \A c \in Callers :
          pc[c] \in {"start_lock", "start_insert", "start_ret"}
              => is_fresh(game[c])
    /\ \A c \in Callers :
          pc[c] = "start_ret"
              => /\ contains_key(games, game[c].game_id)
                 /\ games[game[c].game_id] = game[c]
    /\ \A c \in Callers :
          (req[c].type = "game_start" /\ result[c].type = "ok")
              => /\ is_fresh(result[c].state)
                 /\ contains_key(games, result[c].state.game_id)
    /\ \A id \in DOMAIN games : games[id].game_id = id

\* game_start has returned a game that is stored and still unplayed
C8_Witness ==
    \E c \in Callers :
        /\ req[c].type = "game_start" /\ result[c].type = "ok"
        /\ games[result[c].state.game_id] = result[c].state

\* C9: sessions are independent.  A step of a handler changes the map only
\* in its insert: game_apply_action's insert keeps the keys, changes no
\* entry but the one of its game_id, and puts there apply_action of that
\* entry's own previous state; game_start's insert adds one key that was
\* not there and changes no entry that was; game_get_state, and every other
\* step, changes nothing.
C9_SessionsIndependent ==
    [][\A c \in Callers :
          pc'[c] # pc[c] =>
            CASE pc[c] = "apply_insert" ->
                    /\ DOMAIN games' = DOMAIN games
                    /\ \A id \in DOMAIN games \ {req[c].game_id} :
                          games'[id] = games[id]
                    /\ games'[req[c].game_id]
                          = apply_action(games[req[c].game_id], req[c].action, drawn[c])
              [] pc[c] = "start_insert" ->
                    /\ ~contains_key(games, game[c].game_id)
                    /\ DOMAIN games' = DOMAIN games \cup {game[c].game_id}
                    /\ \A id \in DOMAIN games : games'[id] = games[id]
                    /\ games'[game[c].game_id] = game[c]
              [] OTHER -> games' = games]_vars

\* two sessions are stored; one has been played, the other is untouched
C9_Witness ==
    \E a, b \in DOMAIN games :
        /\ a # b
        /\ Len(hist[a]) >= 1 /\ hist[b] = << >>
        /\ games[a] # new_game(a)
        /\ games[b] = new_game(b)

\* C10: every tool call completes.  The Mutex is only ever held by a caller
\* that is running its handler (it is released on every return, the early
\* NotFound return included), so a waiter can always get it; and under fair
\* scheduling every call that was made returns a result, the state or
\* NotFound.
C10_EveryCallCompletes ==
    /\ [](\A c \in Callers : lock = c => in_critical(c))
    /\ [](lock = Free \/ lock \in Callers)
    /\ \A c \in Callers :
          (pc[c] # "idle") ~> (pc[c] = "idle" /\ result[c].type \in {"ok", "not_found"})

\* a caller waits for the lock while its holder is about to take the early
\* return for an unknown id
C10_Witness ==
    \E c, d \in Callers :
        /\ c # d
        /\ pc[c] \in WaitingPcs
        /\ lock = d
        /\ pc[d] \in {"get_lookup", "apply_lookup"}
        /\ ~contains_key(games, req[d].game_id)

(***************************************************************************)
(* Properties of the engine.                                               *)
(***************************************************************************)
GameOverNotice == "The game is already over. Start a new one to continue playing."

last_line(s) == s.log[Len(s.log)]

last_input == trace[Len(trace)]

at_chest(s) == s.player.x = 2 /\ s.player.y = 1

\* C3: terminal states are absorbing.  Whatever action is applied to a state
\* with game_over = TRUE, won or lost, the result is that state with the one
\* notice line appended to its log and every other field as it was, so
\* game_over stays TRUE and victory keeps its value.
C3_TerminalAbsorbing ==
    [][state.game_over
          => state' = [state EXCEPT !.log = Append(@, GameOverNotice)]]_vars

\* a lost game that holds the potion, after the player tried to drink it
C3_Witness ==
    /\ state.game_over /\ ~state.victory
    /\ steps >= 2
    /\ last_input.action = UseItem("potion")
    /\ contains(state.player.inventory, "potion")
    /\ state.player.health <= 0
    /\ last_line(state) = GameOverNotice

\* C4: in every state reached from a fresh game the player stands on the
\* 3 x 2 grid: 0 <= x <= 2 and 0 <= y <= 1.
C4_PlayerOnGrid ==
    /\ 0 <= state.player.x /\ state.player.x <= 2
    /\ 0 <= state.player.y /\ state.player.y <= 1

\* the player stands in the far corner (2,1) and has just tried to go east
C4_Witness ==
    /\ steps >= 4
    /\ state.player.x = 2 /\ state.player.y = 1
    /\ last_input.action = Move("east")
    /\ last_line(state) = "You can't go that way. The world seems to end there."

\* C5: a running game ends only in two ways.  A step from game_over = FALSE
\* to game_over = TRUE with victory = TRUE applies UseItem("rusty key") at
\* (2,1) with the key in the inventory; one with victory = FALSE applies
\* Attack at (2,1) and its damage of 3 brings health to 0 or less.  Every
\* other action on a running game leaves it running.
C5_OnlyTwoWaysOut ==
    [][(~state.game_over /\ state'.game_over)
          => LET input == trace'[Len(trace')]
             IN  IF state'.victory
                 THEN /\ input.action = UseItem("rusty key")
                      /\ at_chest(state)
                      /\ contains(state.player.inventory, "rusty key")
                 ELSE /\ input.action = Attack
                      /\ at_chest(state)
                      /\ input.roll >= 50
                      /\ state'.player.health = state.player.health - 3
                      /\ state'.player.health <= 0]_vars

\* the game has just been lost to an attack
C5_Witness ==
    /\ steps >= 1
    /\ state.game_over /\ ~state.victory
    /\ last_input.action = Attack
    /\ last_line(state) = "You collapse to the ground. The darkness closes in..."

\* C6: the winning scenario.  From a fresh game, Move East, Move East,
\* Pickup, Move South leave a running game at (2,1) with the rusty key, and
\* UseItem("rusty key") then yields game_over = TRUE and victory = TRUE with
\* the player still at (2,1) holding the key; no Attack is needed.
WinningScenario ==
    <<Move("east"), Move("east"), Pickup, Move("south"), UseItem("rusty key")>>

\* the actions applied so far are the first n of the winning scenario
follows_scenario(n) ==
    /\ Len(trace) = n
    /\ \A i \in 1..n : trace[i].action = WinningScenario[i]

C6_WinningScenario ==
    /\ follows_scenario(4)
          => /\ at_chest(state)
             /\ state.player.inventory = <<"rusty key">>
             /\ ~state.game_over
    /\ follows_scenario(5)
          => /\ state.game_over /\ state.victory
             /\ at_chest(state)
             /\ contains(state.player.inventory, "rusty key")
             /\ state.player.health = 10

C6_Witness == follows_scenario(5)

\* the step applies an action that appends two lines: a fight at (2,1), or
\* the key used at (2,1), in a running game
two_lines(s, input) ==
    /\ ~s.game_over
    /\ at_chest(s)
    /\ \/ input.action = Attack
       \/ /\ input.action = UseItem("rusty key")
          /\ contains(s.player.inventory, "rusty key")

RECURSIVE count_two_lines(_, _)
count_two_lines(s, h) ==
    IF h = << >> THEN 0
    ELSE (IF two_lines(s, Head(h)) THEN 1 ELSE 0)
            + count_two_lines(apply_action(s, Head(h).action, Head(h).roll), Tail(h))

\* C7 as stated: after N apply_action operations the log holds exactly N + 1
\* entries, the seed line and one per action.
C7_LogHasOneLinePerAction == Len(state.log) = Len(trace) + 1

\* C7 as amended: after N apply_action operations the log holds the seed
\* line, one entry per action, and one more entry for every action that was
\* an Attack at (2,1) or a UseItem("rusty key") at (2,1) with the key held,
\* applied to a running game; so at least N + 1 and at most 2N + 1 entries.
C7_LogCountsActions ==
    /\ Len(state.log)
          = Len(trace) + 1 + count_two_lines(new_game(state.game_id), trace)
    /\ Len(state.log) >= Len(trace) + 1
    /\ Len(state.log) <= 2 * Len(trace) + 1

\* five actions applied, two of them fights at (2,1)
C7_Witness ==
    /\ Len(trace) = 5
    /\ count_two_lines(new_game(state.game_id), trace) = 2
    /\ Len(state.log) = 8

IntroLine == "You wake up in a small village at (0,0). To the east lies a dark forest."

\* the input of the step that is being taken
next_input == trace'[Len(trace')]

\* how often item e occurs in inventory v
occurrences(v, e) == Cardinality({i \in 1..Len(v) : v[i] = e})

\* C11: the log is append-only.  Every apply_action leaves the log it was
\* given as a proper prefix of the log it returns: at least one line is
\* added and no earlier line is changed or removed; so the log of a game
\* only ever grows and its first entry stays the introductory line.
C11_LogAppendOnly ==
    [][/\ Len(state'.log) > Len(state.log)
       /\ SubSeq(state'.log, 1, Len(state.log)) = state.log
       /\ state'.log[1] = IntroLine]_vars

\* four actions have been applied and the last one added two lines
C11_Witness ==
    /\ steps = 4
    /\ Len(state.log) = 6
    /\ state.log[1] = IntroLine
    /\ state.log[2] = "You move to (1,0) - a dense forest. You hear distant howls and see something glinting on the ground."

\* C12: UseItem("potion") on a running game.  With "potion" in the
\* inventory it sets health to exactly 10 whatever it was, takes "potion"
\* out of the inventory, keeps the other items, the position, game_over and
\* victory, and adds the one restoration line; without it nothing changes
\* but the log, which gets the one "don't have" line.
C12_PotionRestoresHealth ==
    [][(~state.game_over /\ next_input.action = UseItem("potion"))
          => IF contains(state.player.inventory, "potion")
             THEN /\ state'.player.health = 10
                  /\ ~contains(state'.player.inventory, "potion")
                  /\ Len(state'.player.inventory) = Len(state.player.inventory) - 1
                  /\ \A it \in Items \ {"potion"} :
                        contains(state'.player.inventory, it)
                            <=> contains(state.player.inventory, it)
                  /\ state'.player.x = state.player.x
                  /\ state'.player.y = state.player.y
                  /\ state'.game_over = state.game_over
                  /\ state'.victory = state.victory
                  /\ state'.game_id = state.game_id
                  /\ state'.log = Append(state.log,
                         "You drink the potion. Your health is fully restored.")
             ELSE state' = [state EXCEPT !.log =
                               Append(@, "You don't have a potion to use.")]]_vars

\* the potion has just been drunk in the cave by a player who had health 1
C12_Witness ==
    /\ steps = 1
    /\ Len(trace) = 8
    /\ last_input.action = UseItem("potion")
    /\ trace[7] = Hit
    /\ state.player.health = 10
    /\ state.player.inventory = << >>
    /\ last_line(state) = "You drink the potion. Your health is fully restored."

\* C13: Pickup never duplicates an item.  In every state each item name is
\* in the inventory at most once; Pickup at (1,0) with "potion" held, and
\* at (2,0) with "rusty key" held, changes nothing but the log, which gets
\* the one "already picked up" line, so a second Pickup in a row leaves the
\* inventory of the first.
C13_PickupIdempotent ==
    /\ [](\A it \in Items : occurrences(state.player.inventory, it) <= 1)
    /\ [][(~state.game_over /\ next_input.action = Pickup)
            => /\ (state.player.x = 1 /\ state.player.y = 0
                     /\ contains(state.player.inventory, "potion"))
                  => state' = [state EXCEPT !.log =
                         Append(@, "You already picked up the potion here.")]
               /\ (state.player.x = 2 /\ state.player.y = 0
                     /\ contains(state.player.inventory, "rusty key"))
                  => state' = [state EXCEPT !.log =
                         Append(@, "You already picked up the key here.")]]_vars

\* Pickup, then Pickup again, in the forest
C13_Witness ==
    /\ steps >= 3
    /\ last_input.action = Pickup
    /\ trace[Len(trace) - 1].action = Pickup
    /\ state.player.x = 1 /\ state.player.y = 0
    /\ state.player.inventory = <<"potion">>
    /\ last_line(state) = "You already picked up the potion here."

\* the tile a Move in direction d aims at, from position (x, y)
target_x(x, d) == IF d = "east" THEN x + 1 ELSE IF d = "west" THEN x - 1 ELSE x
target_y(y, d) == IF d = "south" THEN y + 1 ELSE IF d = "north" THEN y - 1 ELSE y

on_grid(x, y) == 0 <= x /\ x <= 2 /\ 0 <= y /\ y <= 1

\* C14: Move on a running game.  With North = (0,-1), South = (0,1),
\* East = (1,0), West = (-1,0): a Move whose target lies off the grid
\* changes nothing but the log, which gets the one rejection line; a Move
\* whose target lies on the grid puts the player exactly there, adds one
\* line and changes no other field.
C14_MoveFrame ==
    [][(~state.game_over /\ next_input.action.type = "move")
          => LET d  == next_input.action.direction
                 tx == target_x(state.player.x, d)
                 ty == target_y(state.player.y, d)
             IN  IF on_grid(tx, ty)
                 THEN /\ state'.player = [state.player EXCEPT !.x = tx, !.y = ty]
                      /\ Len(state'.log) = Len(state.log) + 1
                      /\ SubSeq(state'.log, 1, Len(state.log)) = state.log
                      /\ state'.game_id = state.game_id
                      /\ state'.game_over = state.game_over
                      /\ state'.victory = state.victory
                 ELSE state' = [state EXCEPT !.log = Append(@,
                         "You can't go that way. The world seems to end there.")]]_vars

\* the player has walked back west onto the riverbank, and north is next
\* rejected from the top row
C14_Witness ==
    /\ steps >= 4
    /\ last_input.action = Move("north")
    /\ trace[Len(trace) - 1].action = Move("west")
    /\ state.player.x = 0 /\ state.player.y = 0
    /\ last_line(state) = "You can't go that way. The world seems to end there."
    /\ state.log[Len(state.log) - 1]
          = "You move to (0,0) - a quiet village square with a well in the center."

\* the step is an Attack at (2,1) on a running game that rolls 50 or more
losing_roll(s, input) ==
    /\ ~s.game_over
    /\ at_chest(s)
    /\ input.action = Attack
    /\ input.roll >= 50

RECURSIVE count_losing_rolls(_, _)
count_losing_rolls(s, h) ==
    IF h = << >> THEN 0
    ELSE (IF losing_roll(s, Head(h)) THEN 1 ELSE 0)
            + count_losing_rolls(apply_action(s, Head(h).action, Head(h).roll), Tail(h))

\* C15: an Attack at (2,1) on a running game that rolls 50 or more takes
\* exactly 3 from health and changes no other field of the player; the
\* result has game_over = TRUE and victory = FALSE exactly when its health
\* is 0 or less and is still running otherwise.  From health 10, with no
\* potion drunk, health is 10 less 3 per losing roll and the game is lost
\* on exactly the fourth.
C15_LosingRolls ==
    /\ [](LET k == count_losing_rolls(new_game(state.game_id), trace)
          IN  /\ k <= 4
              /\ state.player.health = 10 - 3 * k
              /\ (state.game_over /\ ~state.victory) <=> k = 4)
    /\ [][losing_roll(state, next_input)
            => /\ state'.player = [state.player EXCEPT !.health = @ - 3]
               /\ IF state'.player.health <= 0
                  THEN state'.game_over /\ ~state'.victory
                  ELSE ~state'.game_over /\ state'.victory = state.victory]_vars

\* the game has been lost by the shortest way: three moves, four losing rolls
C15_Witness ==
    /\ Len(trace) = 7
    /\ count_losing_rolls(new_game(state.game_id), trace) = 4
    /\ state.game_over /\ ~state.victory
    /\ state.player.health = -2

\* a state without its log
without_log(s) == [s EXCEPT !.log = << >>]

\* the lines apply_action adds to the log of s for action a and roll r
added_lines(s, a, r) ==
    SubSeq(apply_action(s, a, r).log, Len(s.log) + 1, Len(apply_action(s, a, r).log))

\* C16: an Attack that deals no damage changes nothing but the log.  On a
\* running game, Attack away from (2,1) adds the one "nothing to attack"
\* line and Attack at (2,1) with a roll below 50 adds the two lines of the
\* won fight; position, health, inventory, game_over and victory stay, and
\* every action applied next gives the result, and the lines, it would have
\* given before that Attack.
C16_HarmlessAttack ==
    [][(~state.game_over /\ next_input.action = Attack
            /\ (~at_chest(state) \/ next_input.roll < 50))
          => /\ state' = [state EXCEPT !.log =
                   IF at_chest(state)
                   THEN @ \o <<"You lunge forward and strike the lurking shadow. It vanishes!",
                               "With the guardian defeated, you can now safely search for treasure here.">>
                   ELSE Append(@, "You swing at the air. There's nothing to attack here.")]
             /\ \A a \in GameAction, r \in Rolls :
                   /\ without_log(apply_action(state', a, r))
                         = without_log(apply_action(state, a, r))
                   /\ added_lines(state', a, r) = added_lines(state, a, r)]_vars

\* the guardian has just been "defeated" in the chamber, the game goes on
C16_Witness ==
    /\ steps >= 1
    /\ ~state.game_over
    /\ at_chest(state)
    /\ last_input = Input(Attack, 49)
    /\ last_line(state)
          = "With the guardian defeated, you can now safely search for treasure here."

\* C17: using the rusty key never consumes it.  UseItem("rusty key") on a
\* running game that holds the key leaves inventory, position and health
\* as they were; away from (2,1) it changes nothing but the log, which gets
\* the one "doesn't fit" line, and at (2,1) it adds exactly two lines.
C17_KeyNotConsumed ==
    [][(~state.game_over /\ next_input.action = UseItem("rusty key")
            /\ contains(state.player.inventory, "rusty key"))
          => /\ state'.player = state.player
             /\ contains(state'.player.inventory, "rusty key")
             /\ IF at_chest(state)
                THEN /\ Len(state'.log) = Len(state.log) + 2
                     /\ SubSeq(state'.log, 1, Len(state.log)) = state.log
                ELSE state' = [state EXCEPT !.log = Append(@,
                        "You idly play with the rusty key, but it doesn't seem to fit anything here.")]]_vars

\* the key has been tried at the cave entrance and is still held
C17_Witness ==
    /\ steps >= 2
    /\ ~state.game_over
    /\ state.player.x = 2 /\ state.player.y = 0
    /\ last_input.action = UseItem("rusty key")
    /\ contains(state.player.inventory, "rusty key")
    /\ last_line(state)
          = "You idly play with the rusty key, but it doesn't seem to fit anything here."

\* C18: whatever item strings UseItem is called with, the inventory only
\* ever holds "potion" and "rusty key", and no log line comes from the
\* "can't figure out how to use" branch of handle_use_item.
C18_OnlyKnownItems ==
    /\ \A i \in 1..Len(state.player.inventory) :
          state.player.inventory[i] \in {"potion", "rusty key"}
    /\ \A j \in 1..Len(state.log), it \in Items :
          state.log[j] # "You can't figure out how to use the " \o it \o "."

\* both items are held and an item of no known name has been asked for
C18_Witness ==
    /\ steps = 5
    /\ state.player.inventory = <<"potion", "rusty key">>
    /\ last_input.action = UseItem("sword")
    /\ last_line(state) = "You don't have a sword to use."

\* C19: health and outcome agree.  Health is one of 10, 7, 4, 1, -2; it is
\* 0 or less exactly in a lost game (game_over and not victory), and then
\* it is -2; a running or won game has health from 1 to 10; and victory
\* implies game_over.
C19_HealthAndOutcome ==
    /\ state.player.health \in {10, 7, 4, 1, -2}
    /\ (state.player.health <= 0) <=> (state.game_over /\ ~state.victory)
    /\ (state.game_over /\ ~state.victory) => state.player.health = -2
    /\ ~(state.game_over /\ ~state.victory)
          => (1 <= state.player.health /\ state.player.health <= 10)
    /\ state.victory => state.game_over

\* a game won with health 1, after three hits
C19_Witness ==
    /\ steps >= 1
    /\ state.game_over /\ state.victory
    /\ state.player.health = 1
    /\ last_input.action = UseItem("rusty key")

\* C20: the potion can be had again and again.  Pickup at (1,0) on a
\* running game adds "potion" whenever "potion" is not in the inventory,
\* however many were picked up and drunk before, and gives the "already
\* picked up" line only while one is held; so Pickup, UseItem("potion"),
\* Pickup at (1,0) ends with "potion" in the inventory.
PotionAgain ==
    <<Move("east"), Pickup, UseItem("potion"), Pickup>>

follows_potion_again ==
    /\ Len(trace) = Len(PotionAgain)
    /\ \A i \in 1..Len(PotionAgain) : trace[i].action = PotionAgain[i]

C20_PotionAgain ==
    /\ [](follows_potion_again => state.player.inventory = <<"potion">>)
    /\ [][(~state.game_over /\ next_input.action = Pickup
              /\ state.player.x = 1 /\ state.player.y = 0)
            => IF contains(state.player.inventory, "potion")
               THEN state' = [state EXCEPT !.log =
                       Append(@, "You already picked up the potion here.")]
               ELSE state' = [state EXCEPT
                       !.player.inventory = Append(@, "potion"),
                       !.log = Append(@,
                           "You find a small potion on the ground and pick it up.")]]_vars

\* the potion has been picked up, drunk and picked up again
C20_Witness ==
    /\ follows_potion_again
    /\ contains(state.player.inventory, "potion")
    /\ state.log[3] = "You find a small potion on the ground and pick it up."
    /\ state.log[4] = "You drink the potion. Your health is fully restored."
    /\ state.log[5] = "You find a small potion on the ground and pick it up."

====
